---- MODULE Spec2Model ----
(***************************************************************************)
(* A model of the webhook ingestion and query API (app/main.py,            *)
(* app/storage.py, app/models.py, app/metrics.py).                         *)
(*                                                                         *)
(* Strings are sequences of characters; a character is a one-element       *)
(* TLA+ string ("+", "1", ...) or the name of a code point that has no     *)
(* printable ASCII form ("LF", "U+0661", "U+00E9").  Python's None and     *)
(* SQL's NULL are the value None, which is no character sequence.          *)
(***************************************************************************)
EXTENDS Integers, Sequences, FiniteSets, TLC

None == <<"None">>

\* ---------------------------------------------------------------- bounds

\* Requests that may be in flight at the same time (worker processes).
MaxInFlight == 2
\* Requests begun in one behaviour.
MaxRequests == 3

Req == 1..MaxInFlight

\* ------------------------------------------------------------ characters

Digits == {"0", "1", "2", "3", "4", "5", "6", "7", "8", "9"}

\* Python's ord(): the code point of a character.  SQLite's BINARY collation
\* compares the UTF-8 bytes, which orders strings as their code points do.
Ord(c) ==
    CASE c = "LF" -> 10
      [] c = " " -> 32
      [] c = "%" -> 37
      [] c = "+" -> 43
      [] c = "-" -> 45
      [] c = "0" -> 48
      [] c = "1" -> 49
      [] c = "2" -> 50
      [] c = "3" -> 51
      [] c = "4" -> 52
      [] c = "5" -> 53
      [] c = "6" -> 54
      [] c = "7" -> 55
      [] c = "8" -> 56
      [] c = "9" -> 57
      [] c = ":" -> 58
      [] c = "H" -> 72
      [] c = "T" -> 84
      [] c = "Z" -> 90
      [] c = "_" -> 95
      [] c = "h" -> 104
      [] c = "i" -> 105
      [] c = "m" -> 109
      [] c = "U+00E9" -> 233
      [] c = "U+0661" -> 1633

\* a < b for two strings, compared code point by code point (memcmp order).
RECURSIVE StrLess(_, _)
StrLess(a, b) ==
    IF b = <<>> THEN FALSE
    ELSE IF a = <<>> THEN TRUE
    ELSE IF Ord(Head(a)) # Ord(Head(b)) THEN Ord(Head(a)) < Ord(Head(b))
    ELSE StrLess(Tail(a), Tail(b))

StrLeq(a, b) == a = b \/ StrLess(a, b)

\* str.endswith(suffix) for a one-character suffix.
EndsWith(v, c) == Len(v) >= 1 /\ v[Len(v)] = c

\* str.replace(old, new) for a one-character old: every occurrence is replaced.
RECURSIVE Replace(_, _, _)
Replace(v, old, new) ==
    IF v = <<>> THEN <<>>
    ELSE (IF Head(v) = old THEN new ELSE <<Head(v)>>) \o Replace(Tail(v), old, new)

\* ------------------------------------------------- app/models.py: validator

\* The regular expression class \d on a Python str: every Unicode decimal
\* digit, of which the alphabet holds the ASCII digits and U+0661.
ReDigit(c) == c \in Digits \/ c = "U+0661"

\* re.match(r'^\+\d+$', v): '+', one or more \d, then the end of the string;
\* without re.MULTILINE '$' also matches just before a final line feed.
E164Match(v) ==
    LET body == IF EndsWith(v, "LF") THEN SubSeq(v, 1, Len(v) - 1) ELSE v
        whole(s) == /\ Len(s) >= 2
                    /\ s[1] = "+"
                    /\ \A i \in 2..Len(s) : ReDigit(s[i])
    IN  whole(v) \/ whole(body)

validate_e164(v) == E164Match(v)

\* int() of a run of ASCII digits.
RECURSIVE DigitsValue(_)
DigitsValue(s) ==
    IF s = <<>> THEN 0
    ELSE DigitsValue(SubSeq(s, 1, Len(s) - 1)) * 10 + (Ord(s[Len(s)]) - 48)

AllDigits(s) == \A i \in 1..Len(s) : s[i] \in Digits

IsLeap(y) == (y % 4 = 0) /\ ((y % 100 # 0) \/ (y % 400 = 0))

DaysInMonth(y, m) ==
    IF m = 2 THEN (IF IsLeap(y) THEN 29 ELSE 28)
    ELSE IF m \in {4, 6, 9, 11} THEN 30 ELSE 31

\* The date part YYYY-MM-DD of datetime.fromisoformat.
ParseIsoDate(d) ==
    /\ Len(d) = 10
    /\ d[5] = "-" /\ d[8] = "-"
    /\ AllDigits(SubSeq(d, 1, 4)) /\ AllDigits(SubSeq(d, 6, 7))
    /\ AllDigits(SubSeq(d, 9, 10))
    /\ LET y == DigitsValue(SubSeq(d, 1, 4))
           m == DigitsValue(SubSeq(d, 6, 7))
           dd == DigitsValue(SubSeq(d, 9, 10))
       IN  /\ y >= 1
           /\ m >= 1 /\ m <= 12
           /\ dd >= 1 /\ dd <= DaysInMonth(y, m)

\* HH, HH:MM or HH:MM:SS, as fromisoformat reads a time of day and the
\* magnitude of a UTC offset.
ParseHHMMSS(t) ==
    /\ Len(t) \in {2, 5, 8}
    /\ AllDigits(SubSeq(t, 1, 2)) /\ DigitsValue(SubSeq(t, 1, 2)) <= 23
    /\ Len(t) >= 5 =>
         /\ t[3] = ":"
         /\ AllDigits(SubSeq(t, 4, 5)) /\ DigitsValue(SubSeq(t, 4, 5)) <= 59
    /\ Len(t) = 8 =>
         /\ t[6] = ":"
         /\ AllDigits(SubSeq(t, 7, 8)) /\ DigitsValue(SubSeq(t, 7, 8)) <= 59

\* Index of the first '+' or '-' of t, 0 when there is none.
RECURSIVE TzPos(_, _)
TzPos(t, i) ==
    IF i > Len(t) THEN 0
    ELSE IF t[i] \in {"+", "-"} THEN i
    ELSE TzPos(t, i + 1)

\* The part of a date-time string after the separator: a time of day, then
\* an optional signed UTC offset.
ParseIsoTime(t) ==
    LET p == TzPos(t, 1)
    IN  IF p = 0 THEN ParseHHMMSS(t)
        ELSE /\ ParseHHMMSS(SubSeq(t, 1, p - 1))
             /\ ParseHHMMSS(SubSeq(t, p + 1, Len(t)))

\* datetime.fromisoformat(s) does not raise ValueError, for the extended
\* format: a 10-character date, and, when more follows, one separator
\* character of any kind and a time.
fromisoformat(s) ==
    /\ Len(s) >= 10
    /\ ParseIsoDate(SubSeq(s, 1, 10))
    /\ Len(s) > 10 => /\ Len(s) >= 12
                      /\ ParseIsoTime(SubSeq(s, 12, Len(s)))

\* validate_iso8601 without the test of the final Z.
validate_iso8601_AnySuffix(v) ==
    fromisoformat(Replace(v, "Z", <<"+", "0", "0", ":", "0", "0">>))

\* WebhookMessage.validate_iso8601 returns v (does not raise ValueError).
validate_iso8601(v) ==
    /\ EndsWith(v, "Z")
    /\ fromisoformat(Replace(v, "Z", <<"+", "0", "0", ":", "0", "0">>))

MaxTextLength == 4096

\* WebhookMessage.model_validate_json(body) returns a message: the bytes are
\* JSON and every field passes; a key the model does not declare is ignored.
WebhookMessageValid(b) ==
    /\ b.form # "cut"
    /\ b.message_id # None /\ Len(b.message_id) >= 1
    /\ b.from # None /\ validate_e164(b.from)
    /\ b.to # None /\ Len(b.to) >= 1 /\ validate_e164(b.to)
    /\ b.ts # None /\ validate_iso8601(b.ts)
    /\ b.text = None \/ Len(b.text) <= MaxTextLength


\* --------------------------------------------- app/storage.py: the table

\* A row of table messages (init_db): the six columns.
Row(message_id, from_msisdn, to_msisdn, ts, text, created_at) ==
    [message_id |-> message_id, from_msisdn |-> from_msisdn,
     to_msisdn |-> to_msisdn, ts |-> ts, text |-> text,
     created_at |-> created_at]

\* message_id TEXT PRIMARY KEY: the unique index has an entry for the key.
PrimaryKeyConflict(table, message_id) ==
    \E i \in 1..Len(table) : table[i].message_id = message_id

\* An insert that replaces the row of the same key (INSERT OR REPLACE).
InsertReplace(table, row) ==
    [error |-> "none",
     table |-> Append(SelectSeq(table,
                   LAMBDA old : old.message_id # row.message_id), row)]

\* An insert into a table without the PRIMARY KEY constraint.
InsertNoKey(table, row) ==
    [error |-> "none", table |-> Append(table, row)]

\* INSERT INTO messages ... VALUES (...): the statement of insert_message.
\* A key that is already in the table raises sqlite3.IntegrityError and the
\* table stays as it is; otherwise the row is added after the others.
ExecuteInsert(table, row) ==
    IF PrimaryKeyConflict(table, row.message_id)
    THEN [error |-> "IntegrityError", table |-> table]
    ELSE [error |-> "none", table |-> Append(table, row)]

\* An insert_message without the except clause.
ExceptNothing(error) == "raise"

\* An insert_message whose except clause catches every exception.
ExceptAll(error) == "duplicate"

\* The except clause of insert_message: only sqlite3.IntegrityError is
\* caught and reported as a duplicate; any other exception leaves the call.
insert_message_except(error) ==
    IF error = "IntegrityError" THEN "duplicate" ELSE "raise"

\* Python truthiness of an Optional[str]: None and '' are false.
Truthy(v) == v # None /\ v # <<>>

\* SQLite's LIKE folds the case of the ASCII letters only.
Lower(c) ==
    CASE c = "H" -> "h"
      [] c = "T" -> "t"
      [] c = "Z" -> "z"
      [] OTHER -> c

\* text LIKE pattern: '%' matches any run of characters, '_' any one
\* character, every other character itself without regard to ASCII case.
RECURSIVE LikeMatch(_, _)
LikeMatch(p, s) ==
    IF p = <<>> THEN s = <<>>
    ELSE IF Head(p) = "%"
         THEN LikeMatch(Tail(p), s) \/ (s # <<>> /\ LikeMatch(p, Tail(s)))
    ELSE IF s = <<>> THEN FALSE
    ELSE IF Head(p) = "_" THEN LikeMatch(Tail(p), Tail(s))
    ELSE Lower(Head(p)) = Lower(Head(s)) /\ LikeMatch(Tail(p), Tail(s))

\* A WHERE clause that joins the filters by OR.
WhereAny(row, p) ==
    \/ Truthy(p.from_filter) /\ row.from_msisdn = p.from_filter
    \/ Truthy(p.since) /\ StrLeq(p.since, row.ts)
    \/ Truthy(p.q) /\ row.text # None
                   /\ LikeMatch(<<"%">> \o p.q \o <<"%">>, row.text)

\* A WHERE clause with ts > ? in place of ts >= ?.
WhereStrictSince(row, p) ==
    /\ Truthy(p.from_filter) => row.from_msisdn = p.from_filter
    /\ Truthy(p.since) => StrLess(p.since, row.ts)
    /\ Truthy(p.q) => /\ row.text # None
                      /\ LikeMatch(<<"%">> \o p.q \o <<"%">>, row.text)

\* The WHERE clause get_messages builds: a clause for each truthy filter,
\* joined by AND ("1=1" when there is none).  A comparison with a NULL text
\* is not true.
Where(row, p) ==
    /\ Truthy(p.from_filter) => row.from_msisdn = p.from_filter
    /\ Truthy(p.since) => StrLeq(p.since, row.ts)
    /\ Truthy(p.q) => /\ row.text # None
                      /\ LikeMatch(<<"%">> \o p.q \o <<"%">>, row.text)

SelectWhere(table, p) == SelectSeq(table, LAMBDA row : Where(row, p))

\* SELECT COUNT(*) as total FROM messages WHERE ...
CountQuery(table, p) == Len(SelectWhere(table, p))

\* ORDER BY ts ASC alone.
OrderByTsOnly(a, b) == StrLess(a.ts, b.ts)

\* ORDER BY ts ASC, message_id ASC: row a sorts before row b.

OrderBefore(a, b) ==
    \/ StrLess(a.ts, b.ts)
    \/ a.ts = b.ts /\ StrLess(a.message_id, b.message_id)

\* The rows in ORDER BY order; rows the ORDER BY does not tell apart stay
\* in table order.
RECURSIVE OrderBy(_)
OrderBy(rows) ==
    IF rows = <<>> THEN <<>>
    ELSE LET front == OrderBy(SubSeq(rows, 1, Len(rows) - 1))
             last == rows[Len(rows)]
             k == Cardinality({i \in 1..Len(front) :
                                  ~OrderBefore(last, front[i])})
         IN  SubSeq(front, 1, k) \o <<last>>
                 \o SubSeq(front, k + 1, Len(front))

\* A page that starts one row before its offset.
LimitOffsetFromBefore(rows, limit, offset) ==
    SubSeq(rows, IF offset = 0 THEN 1 ELSE offset,
           IF offset + limit < Len(rows) THEN offset + limit ELSE Len(rows))

\* LIMIT ? OFFSET ?
LimitOffset(rows, limit, offset) ==
    SubSeq(rows, offset + 1,
           IF offset + limit < Len(rows) THEN offset + limit ELSE Len(rows))

\* A column list with the aliases 'from' and 'to' exchanged.
ProjectSwapped(row) ==
    [message_id |-> row.message_id, from |-> row.to_msisdn,
     to |-> row.from_msisdn, ts |-> row.ts, text |-> row.text]

\* SELECT message_id, from_msisdn as 'from', to_msisdn as 'to', ts, text
Project(row) ==
    [message_id |-> row.message_id, from |-> row.from_msisdn,
     to |-> row.to_msisdn, ts |-> row.ts, text |-> row.text]

\* The page query of get_messages, as the list of dict(row).
PageQuery(table, p) ==
    LET page == LimitOffset(OrderBy(SelectWhere(table, p)), p.limit, p.offset)
    IN  [i \in 1..Len(page) |-> Project(page[i])]

\* ----------------------------------------------- app/storage.py: get_stats

\* SELECT COUNT(DISTINCT from_msisdn)
SendersOf(table) == {table[i].from_msisdn : i \in 1..Len(table)}

\* GROUP BY from_msisdn with COUNT(*): one group per sender.
GroupCount(table, f) ==
    Cardinality({i \in 1..Len(table) : table[i].from_msisdn = f})

Groups(table) ==
    {[from |-> f, count |-> GroupCount(table, f)] : f \in SendersOf(table)}

TopSenders == 10

\* ORDER BY count DESC: the orders of the groups G that are non-increasing
\* in count.  There is no second sort key: groups of equal count come in
\* any order.
RECURSIVE OrdersByCountDesc(_)
OrdersByCountDesc(G) ==
    IF G = {} THEN {<<>>}
    ELSE LET top == {g \in G : \A h \in G : g.count >= h.count}
         IN  UNION {{<<g>> \o s : s \in OrdersByCountDesc(G \ {g})} :
                       g \in top}

\* The groups by growing count (ORDER BY count ASC) and LIMIT 10.
PerSenderAscending(table) ==
    LET n == Cardinality(Groups(table))
        k == IF n < TopSenders THEN n ELSE TopSenders
    IN  {[i \in 1..k |-> s[n + 1 - i]] :
            s \in OrdersByCountDesc(Groups(table))}

\* ORDER BY count DESC LIMIT 10: every order of the groups that is
\* non-increasing in count is a result SQL allows, cut to the first ten.
PerSenderResults(table) ==
    LET n == Cardinality(Groups(table))
        k == IF n < TopSenders THEN n ELSE TopSenders
    IN  {SubSeq(s, 1, k) : s \in OrdersByCountDesc(Groups(table))}

TsOf(table) == {table[i].ts : i \in 1..Len(table)}

\* SELECT MAX(ts) (NULL on an empty table)
MaxTs(table) ==
    IF table = <<>> THEN None
    ELSE CHOOSE t \in TsOf(table) : \A u \in TsOf(table) : StrLeq(u, t)

\* The ts of the oldest row in place of MIN(ts).
MinTsOfFirstRow(table) == IF table = <<>> THEN None ELSE table[1].ts

\* SELECT MIN(ts) (NULL on an empty table)
MinTs(table) ==
    IF table = <<>> THEN None
    ELSE CHOOSE t \in TsOf(table) : \A u \in TsOf(table) : StrLeq(t, u)


\* ------------------------------------------------------------- the inputs

M1 == <<"m", "1">>
M2 == <<"m", "2">>
M3 == <<"m", "3">>
MessageIds == {M1, M2, M3}

Sender1 == <<"+", "1">>
Sender2 == <<"+", "2">>
Receiver == <<"+", "9">>

Jan15 == <<"2", "0", "2", "5", "-", "0", "1", "-", "1", "5">>
\* "2025-01-15T09:00:00Z" and "2025-01-15T10:00:00Z"
T0900 == Jan15 \o <<"T", "0", "9", ":", "0", "0", ":", "0", "0", "Z">>
T1000 == Jan15 \o <<"T", "1", "0", ":", "0", "0", ":", "0", "0", "Z">>
\* "2025-01-15T10:00:00": no UTC designator
T1000NoZ == Jan15 \o <<"T", "1", "0", ":", "0", "0", ":", "0", "0">>
\* "2025-01-15 10:00:00Z": a space where the others have T
T1000Space == Jan15 \o <<" ", "1", "0", ":", "0", "0", ":", "0", "0", "Z">>

\* The bytes of a request body, described by the JSON object they encode and
\* by the way it is written.  A field is a string, or None when the key is
\* absent or null; extra tells whether a key unknown to WebhookMessage is
\* there too.  form is "compact" (no whitespace), "space" or "tab" (that
\* character after the first colon), or "cut" (the compact form without its
\* closing brace, which is not JSON).  Two bodies are the same bytes exactly
\* when they are the same record.
Payload(message_id, from, to, ts, text) ==
    [message_id |-> message_id, from |-> from, to |-> to, ts |-> ts,
     text |-> text, extra |-> FALSE, form |-> "compact"]

BodyA == Payload(M1, Sender1, Receiver, T1000, <<"H", "i">>)
\* BodyA's message_id with every other field different
BodyB == Payload(M1, Sender2, Receiver, T0900, None)
BodyC == Payload(M2, Sender1, Receiver, T1000, <<"h", "i">>)
BodyD == Payload(M3, Sender2, Receiver, T1000, None)
\* one hour after BodyB, its ts written with a space
BodyE == Payload(M2, Sender2, Receiver, T1000Space, None)
\* "message_id": ""
BodyEmptyId == Payload(<<>>, Sender1, Receiver, T1000, <<"H", "i">>)
\* "from": "1"
BodyNoPlus == Payload(M2, <<"1">>, Receiver, T1000, <<"H", "i">>)
\* "ts": "2025-01-15T10:00:00"
BodyNoZ == Payload(M3, Sender1, Receiver, T1000NoZ, None)

ValidBodies == {BodyA, BodyB, BodyC, BodyD, BodyE}
InvalidBodies == {BodyEmptyId, BodyNoPlus, BodyNoZ}
NoBody == Payload(None, None, None, None, None)

\* settings.WEBHOOK_SECRET (conftest.py uses "testsecret")
WEBHOOK_SECRET == "testsecret"

\* The value of an X-Signature header.  kind "hexdigest" is the lowercase
\* hex of HMAC-SHA256 under key over body, taken as free of collisions: two
\* digests are equal exactly when key and body are.  The other kinds are
\* strings that are no digest of any input of the model: "empty" (the header
\* is missing, headers.get gives ''), "ascii" ("invalid123") and
\* "nonascii" (a header byte above 0x7F, as in "U+00E9").
Signature(kind, key, body) == [kind |-> kind, key |-> key, body |-> body]

HmacSha256Hex(key, body) == Signature("hexdigest", key, body)

NoSignature == Signature("empty", "", NoBody)

BadSignatures(body) ==
    {Signature("empty", "", body), Signature("ascii", "", body),
     Signature("nonascii", "", body), HmacSha256Hex(WEBHOOK_SECRET, BodyD)}

\* The POST /webhook requests: every body correctly signed, a valid body
\* under every signature that does not verify, and an invalid body unsigned.
WebhookInputs ==
    {[body |-> b, signature |-> HmacSha256Hex(WEBHOOK_SECRET, b)] :
        b \in ValidBodies \cup InvalidBodies}
    \cup {[body |-> BodyA, signature |-> s] : s \in BadSignatures(BodyA)}
    \cup {[body |-> BodyNoZ, signature |-> Signature("empty", "", BodyNoZ)]}

\* A second value the secret may be configured to.
OtherSecret == "othersecret"
Secrets == {WEBHOOK_SECRET, OtherSecret}

\* The object of body b written in another form.
Written(b, form) == [b EXCEPT !.form = form]

\* "+1\n", "+" and the Arabic-Indic digit one (U+0661), "+" alone
PlusOneNewline == <<"+", "1", "LF">>
PlusArabicOne == <<"+", "U+0661">>
PlusOnly == <<"+">>
\* "2025-13-15T10:00:00Z": no such month
T1000Month13 ==
    <<"2", "0", "2", "5", "-", "1", "3", "-", "1", "5">>
        \o <<"T", "1", "0", ":", "0", "0", ":", "0", "0", "Z">>

\* A text of n characters.
TextOfLength(n) == [i \in 1..n |-> "h"]

\* BodyA in its four forms, and BodyA with one byte of message_id changed.
SignedBodies ==
    {BodyA, Written(BodyA, "space"), Written(BodyA, "tab"),
     Written(BodyA, "cut"), [BodyA EXCEPT !.message_id = M2]}

\* BodyA with one field changed: from and to with a final line feed, a
\* digit that is not ASCII, no '+', no digit, empty and absent; ts without
\* Z, with month 13, "Z" alone and absent; text absent, of 4096 and of 4097
\* characters; message_id empty and absent; an unknown key added.
FieldBodies ==
    {[BodyA EXCEPT !.from = v] :
        v \in {PlusOneNewline, PlusArabicOne, <<"1">>, PlusOnly, <<>>, None}}
    \cup {[BodyA EXCEPT !.to = v] :
        v \in {PlusOneNewline, PlusArabicOne, <<"9">>, PlusOnly, <<>>, None}}
    \cup {[BodyA EXCEPT !.ts = v] :
        v \in {T1000NoZ, T1000Month13, <<"Z">>, None}}
    \cup {[BodyA EXCEPT !.text = v] :
        v \in {None, TextOfLength(MaxTextLength),
               TextOfLength(MaxTextLength + 1)}}
    \cup {[BodyA EXCEPT !.message_id = v] : v \in {<<>>, None}}
    \cup {[BodyA EXCEPT !.extra = TRUE]}

\* The X-Signature values sent with a body of SignedBodies: the digest of
\* every such body under every secret, the values of BadSignatures, and
\* "shorthex" ("abc123": hexadecimal, not 64 characters long).
SignaturesFor(body) ==
    {HmacSha256Hex(k, b) : k \in Secrets, b \in SignedBodies}
    \cup BadSignatures(body) \cup {Signature("shorthex", "", body)}

\* The POST /webhook requests of the single-request specification, for a
\* server configured with secret: every body of SignedBodies under every
\* signature, and every body of FieldBodies correctly signed.
PipelineInputs(secret) ==
    {[body |-> b, signature |-> s] :
        b \in SignedBodies, s \in SignaturesFor(BodyA)}
    \cup {[body |-> b, signature |-> HmacSha256Hex(secret, b)] :
             b \in FieldBodies}

\* The query parameters of GET /messages (None: the parameter is absent).
Params(limit, offset, from_filter, since, q) ==
    [limit |-> limit, offset |-> offset, from_filter |-> from_filter,
     since |-> since, q |-> q]

DefaultLimit == 50
DefaultOffset == 0
MinLimit == 1
MaxLimit == 100

NoParams == Params(DefaultLimit, DefaultOffset, None, None, None)

\* The query string of a GET /messages without limit and offset.
NoLimitNoOffset == [from_filter |-> None, since |-> None, q |-> None]

\* The parameters list_messages is called with for a query string: the
\* Query(default=...) of a parameter stands in for one that is not given.
WithDefaults(query) ==
    Params(IF "limit" \in DOMAIN query THEN query.limit ELSE DefaultLimit,
           IF "offset" \in DOMAIN query THEN query.offset ELSE DefaultOffset,
           query.from_filter, query.since, query.q)

\* The GET /messages requests: pages of one and two rows without a filter
\* and under from and since together, the other sender, a text search alone
\* (for a letter, for '%' and for '_')
\* and with the other filters, an empty from (GET /messages?from=), no
\* limit and offset at all, the limits at and beyond their bounds and an
\* offset below its bound.
ListInputs ==
    {Params(l, o, f[1], f[2], None) :
        l \in {1, 2}, o \in {0, 1},
        f \in {<<None, None>>, <<Sender1, T1000>>}}
    \cup {Params(2, 0, Sender2, T1000, None),
          Params(2, 0, None, None, <<"h">>),
          Params(2, 0, None, None, <<"%">>),
          Params(2, 0, None, None, <<"_">>),
          Params(2, 0, Sender1, T0900, <<"h">>),
          Params(2, 0, <<>>, None, None)}
    \cup {NoLimitNoOffset}
    \cup {Params(l, DefaultOffset, None, None, None) :
             l \in {MinLimit - 1, MaxLimit, MaxLimit + 1}}
    \cup {Params(DefaultLimit, 0 - 1, None, None, None)}

\* -------------------------------------------------------------- the state

VARIABLES
    messages,                \* table messages: its committed rows, in rowid order
    req,                     \* the request each worker is handling
    now,                     \* the clock datetime.utcnow() reads
    webhook_requests_total,  \* Counter webhook_requests_total, by result
    http_requests_total,     \* Counter http_requests_total, by (path, status)
    request_latency_ms,      \* Histogram request_latency_ms: its observations
    log,                     \* the log lines written, by level
    started,                 \* requests begun so far
    settings,                \* app.config.settings, read once at process start
    inserted                 \* history: what insert_message returned, by message_id

vars == <<messages, req, now, webhook_requests_total, http_requests_total,
          request_latency_ms, log, started, settings, inserted>>

obs == <<webhook_requests_total, http_requests_total, request_latency_ms, log>>

Results == {"invalid_signature", "validation_error", "duplicate", "created"}

Paths == {"/webhook", "/messages", "/stats", "/health/live", "/health/ready",
          "/metrics"}

Statuses == {200, 401, 422, 500, 503}

NoRow == Row(None, None, None, None, None, 0)

NoStats ==
    [total_messages |-> 0, senders_count |-> 0, messages_per_sender |-> <<>>,
     first_message_ts |-> None, last_message_ts |-> None]

\* A worker with no request.  Of a request: path and pc (where its handler
\* stands), its inputs (body, signature, query), the handler's locals
\* (params, row, dup, result, total, data, stats), the limit and offset of
\* a list response, the response status (0: none
\* yet) and detail (of a webhook response: the "status" of its body or the
\* detail of its HTTPException), raised (the exception that left the
\* handler, "" when none did), and as history calls (the functions the handler called so far), waited
\* (another worker's insert of the same message_id committed while this
\* one was about to insert), n_first and n_last (the number of
\* committed rows at the first and at the latest query of a read).
Idle ==
    [path |-> "", pc |-> "idle", body |-> NoBody, signature |-> NoSignature,
     query |-> NoParams, params |-> NoParams, row |-> NoRow, dup |-> FALSE, result |-> "",
     total |-> 0, data |-> <<>>, stats |-> NoStats, status |-> 0,
     detail |-> "", raised |-> "", calls |-> <<>>, waited |-> FALSE,
     n_first |-> 0, n_last |-> 0, limit |-> 0, offset |-> 0]

Init ==
    /\ messages = <<>>
    /\ req = [r \in Req |-> Idle]
    /\ now = 0
    /\ webhook_requests_total = [l \in Results |-> 0]
    /\ http_requests_total = [k \in Paths \X Statuses |-> 0]
    /\ request_latency_ms = 0
    /\ log = [info |-> 0, error |-> 0]
    /\ started = 0
    /\ settings = [WEBHOOK_SECRET |-> WEBHOOK_SECRET]
    /\ inserted = [m \in MessageIds |-> [created |-> 0, duplicate |-> 0,
                                         first |-> NoBody]]

Set(r, new) == req' = [req EXCEPT ![r] = new]

\* A request is taken by the first worker that is free (the workers are
\* alike: which one serves a request makes no difference to any other).
Free(r) == req[r].pc = "idle" /\ \A o \in Req : o < r => req[o].pc # "idle"

\* A request begins, while the behaviour's budget of requests lasts.
Begin == started < MaxRequests /\ started' = started + 1

\* ------------------------------------------- app/main.py: POST /webhook

\* hmac.compare_digest(a, b) on two str: TypeError when one holds a
\* character that is not ASCII, else whether they are equal.
compare_digest(expected, signature) ==
    IF signature.kind = "nonascii" THEN "TypeError"
    ELSE IF /\ signature.kind = "hexdigest"
            /\ signature.key = expected.key
            /\ signature.body = expected.body
         THEN "True"
         ELSE "False"

\* A verify_signature that signs the message written anew in compact form.
verify_signature_Rewritten(body, signature) ==
    compare_digest(HmacSha256Hex(settings.WEBHOOK_SECRET,
                                 Written(body, "compact")), signature)

\* A verify_signature that lets every request pass.
verify_signature_Always(body, signature) == "True"

verify_signature(body, signature) ==
    compare_digest(HmacSha256Hex(settings.WEBHOOK_SECRET, body), signature)

Count(counter, label) == [counter EXCEPT ![label] = @ + 1]

\* log_requests up to call_next and webhook down to the call of
\* insert_message: the body is read, the signature checked (lines 87-93)
\* and the message parsed and validated (lines 95-102).  The steps are the
\* worker's own: they read and write nothing another worker sees but the
\* counters and the log, which they only add to.
Webhook(r, in) ==
    /\ Free(r)
    /\ Begin
    /\ LET ok == verify_signature(in.body, in.signature)
           valid == WebhookMessageValid(in.body)
           received == [Idle EXCEPT !.path = "/webhook", !.body = in.body,
                                    !.signature = in.signature,
                                    !.calls = <<"verify_signature">>]
           parsed == [received EXCEPT
                         !.calls = Append(@, "model_validate_json")]
       IN  CASE ok = "TypeError" ->
                  /\ Set(r, [received EXCEPT !.pc = "responded",
                                            !.raised = "TypeError",
                                            !.status = 500])
                  /\ UNCHANGED <<webhook_requests_total, log>>
             [] ok = "False" ->
                  /\ Set(r, [received EXCEPT !.pc = "responded",
                                            !.result = "invalid_signature",
                                            !.status = 401,
                                            !.detail = "invalid signature"])
                  /\ webhook_requests_total' =
                         Count(webhook_requests_total, "invalid_signature")
                  /\ log' = Count(log, "error")
             [] ok = "True" /\ ~valid ->
                  /\ Set(r, [parsed EXCEPT !.pc = "responded",
                                          !.result = "validation_error",
                                          !.status = 422,
                                          !.detail = "validation error"])
                  /\ webhook_requests_total' =
                         Count(webhook_requests_total, "validation_error")
                  /\ log' = Count(log, "error")
             [] ok = "True" /\ valid ->
                  /\ Set(r, [parsed EXCEPT !.pc = "validated"])
                  /\ UNCHANGED <<webhook_requests_total, log>>
    /\ UNCHANGED <<messages, now, http_requests_total, request_latency_ms,
                   inserted, settings>>

\* SQLite lets one connection at a time hold the write lock: worker r can
\* start to write when no other worker has an open write transaction.
WriteLockFree(r) == \A o \in Req \ {r} : req[o].pc # "inserting"

NoteInsert(m, what, body) ==
    inserted' = [inserted EXCEPT
        ![m] = IF what = "created"
               THEN [@ EXCEPT !.created = @ + 1,
                              !.first = IF inserted[m].created = 0
                                        THEN body ELSE @]
               ELSE [@ EXCEPT !.duplicate = @ + 1]]

\* insert_message up to the end of conn.execute: the connection is opened,
\* created_at is read from the clock and the INSERT runs in a transaction
\* that takes the write lock.  On sqlite3.IntegrityError the context manager
\* rolls back, the except clause returns (True, True) and webhook (lines
\* 113-124) counts a duplicate and answers 200.
InsertExecute(r) ==
    /\ req[r].pc = "validated"
    /\ WriteLockFree(r)
    /\ now' = now + 1
    /\ LET b == req[r].body
           row == Row(b.message_id, b.from, b.to, b.ts, b.text, now)
           called == [req[r] EXCEPT !.calls = Append(@, "insert_message")]
           error == ExecuteInsert(messages, row).error
           outcome == IF error = "none" THEN "pending"
                      ELSE insert_message_except(error)
       IN  CASE outcome = "pending" ->
                  /\ Set(r, [called EXCEPT !.pc = "inserting", !.row = row])
                  /\ UNCHANGED <<webhook_requests_total, inserted>>
             [] outcome = "duplicate" ->
                  /\ Set(r, [called EXCEPT !.pc = "responded", !.dup = TRUE,
                                          !.result = "duplicate",
                                          !.status = 200, !.detail = "ok"])
                  /\ webhook_requests_total' =
                         Count(webhook_requests_total, "duplicate")
                  /\ NoteInsert(b.message_id, "duplicate", b)
             [] outcome = "raise" ->
                  /\ Set(r, [called EXCEPT !.pc = "responded",
                                          !.raised = error, !.status = 500])
                  /\ UNCHANGED <<webhook_requests_total, inserted>>
    /\ UNCHANGED <<messages, http_requests_total, request_latency_ms, log,
                   started, settings>>

\* get_db_connection's conn.commit() and insert_message's "return True,
\* False": the row becomes visible to every connection and the lock is
\* released; webhook (lines 113-124) counts a creation and answers 200.
InsertCommit(r) ==
    /\ req[r].pc = "inserting"
    /\ messages' = ExecuteInsert(messages, req[r].row).table
    /\ req' = [o \in Req |->
                  IF o = r
                  THEN [req[r] EXCEPT !.pc = "responded", !.dup = FALSE,
                                      !.row = NoRow, !.result = "created",
                                      !.status = 200, !.detail = "ok"]
                  ELSE IF /\ req[o].pc = "validated"
                          /\ req[o].body.message_id = req[r].body.message_id
                       THEN [req[o] EXCEPT !.waited = TRUE]
                       ELSE req[o]]
    /\ webhook_requests_total' = Count(webhook_requests_total, "created")
    /\ NoteInsert(req[r].body.message_id, "created", req[r].body)
    /\ UNCHANGED <<now, http_requests_total, request_latency_ms, log,
                   started, settings>>

\* A context manager that commits what is pending when an exception passes.
CommitPending(table, row) ==
    IF row.message_id = None THEN table ELSE Append(table, row)

\* get_db_connection's "except Exception: conn.rollback(); raise": the row
\* of the open transaction, when there is one, is discarded.
Rollback(table, row) == table

\* sqlite3.OperationalError in insert_message (the database is locked past
\* the busy timeout, the disk fails), at connect or execute or at commit:
\* get_db_connection rolls back and raises again, insert_message does not
\* catch it, and it leaves webhook and the middleware.
InsertFault(r) ==
    /\ req[r].pc \in {"validated", "inserting"}
    /\ messages' = Rollback(messages, req[r].row)
    /\ LET error == "OperationalError"
           called == [req[r] EXCEPT
                         !.row = NoRow,
                         !.calls = IF req[r].pc = "validated"
                                   THEN Append(@, "insert_message") ELSE @]
       IN  CASE insert_message_except(error) = "raise" ->
                  /\ Set(r, [called EXCEPT !.pc = "responded",
                                          !.raised = error, !.status = 500])
                  /\ UNCHANGED <<webhook_requests_total, inserted>>
             [] insert_message_except(error) = "duplicate" ->
                  /\ Set(r, [called EXCEPT !.pc = "responded", !.dup = TRUE,
                                          !.result = "duplicate",
                                          !.status = 200, !.detail = "ok"])
                  /\ webhook_requests_total' =
                         Count(webhook_requests_total, "duplicate")
                  /\ NoteInsert(req[r].body.message_id, "duplicate",
                                req[r].body)
    /\ UNCHANGED <<now, http_requests_total, request_latency_ms, log,
                   started, settings>>

\* log_requests after call_next returned a response: the request counter,
\* the latency observation and the "Request processed" line.
LogRequests(r) ==
    /\ req[r].pc = "responded"
    /\ req[r].raised = ""
    /\ http_requests_total' =
           Count(http_requests_total, <<req[r].path, req[r].status>>)
    /\ request_latency_ms' = request_latency_ms + 1
    /\ log' = Count(log, "info")
    /\ Set(r, Idle)
    /\ UNCHANGED <<messages, now, webhook_requests_total, started, inserted,
                   settings>>

\* An exception that left the handler leaves call_next too: the rest of
\* log_requests does not run and the server answers 500.
Unhandled(r) ==
    /\ req[r].pc = "responded"
    /\ req[r].raised # ""
    /\ Set(r, Idle)
    /\ UNCHANGED <<messages, now, obs, started, inserted, settings>>


\* ------------------------------------------ app/main.py: GET /messages

\* Parameters without the bounds ge and le.
QueryParamsUnchecked(p) == TRUE

\* Query(ge=1, le=100) and Query(ge=0): FastAPI answers 422 before
\* list_messages runs.
QueryParamsValid(p) ==
    /\ p.limit >= MinLimit /\ p.limit <= MaxLimit
    /\ p.offset >= 0

\* The request arrives; with valid parameters list_messages calls
\* get_messages, which opens a connection and runs the count query.
ListCount(r, query) ==
    /\ Free(r)
    /\ Begin
    /\ LET p == WithDefaults(query)
           arrived == [Idle EXCEPT !.path = "/messages", !.query = query,
                                   !.params = p]
       IN  Set(r, IF QueryParamsValid(p)
                  THEN [arrived EXCEPT !.pc = "counted",
                                       !.calls = <<"get_messages">>,
                                       !.total = CountQuery(messages, p),
                                       !.n_first = Len(messages),
                                       !.n_last = Len(messages)]
                  ELSE [arrived EXCEPT !.pc = "responded", !.status = 422])
    /\ UNCHANGED <<messages, now, obs, inserted, settings>>

\* A page query that deletes the rows it has returned.
ListPageConsuming(r) ==
    /\ req[r].pc = "counted"
    /\ Set(r, [req[r] EXCEPT !.pc = "responded", !.status = 200,
                             !.data = PageQuery(messages, req[r].params),
                             !.limit = req[r].params.limit,
                             !.offset = req[r].params.offset,
                             !.n_last = Len(messages)])
    /\ messages' = SelectSeq(messages,
                             LAMBDA row : ~Where(row, req[r].params))
    /\ UNCHANGED <<now, obs, started, inserted, settings>>

\* The page query of get_messages, a statement of its own on the same
\* connection (no transaction spans the two SELECTs), and the response
\* of list_messages with data, total, limit and offset.
ListPage(r) ==
    /\ req[r].pc = "counted"
    /\ Set(r, [req[r] EXCEPT !.pc = "responded", !.status = 200,
                             !.data = PageQuery(messages, req[r].params),
                             !.limit = req[r].params.limit,
                             !.offset = req[r].params.offset,
                             !.n_last = Len(messages)])
    /\ UNCHANGED <<messages, now, obs, started, inserted, settings>>

\* --------------------------------------------- app/main.py: GET /stats

\* The request arrives and get_stats runs its first query, COUNT(*).
StatsTotal(r) ==
    /\ Free(r)
    /\ Begin
    /\ Set(r, [Idle EXCEPT !.path = "/stats", !.pc = "stats-total",
                           !.calls = <<"get_stats">>,
                           !.stats = [NoStats EXCEPT
                                         !.total_messages = Len(messages)],
                           !.n_first = Len(messages),
                           !.n_last = Len(messages)])
    /\ UNCHANGED <<messages, now, obs, inserted, settings>>

\* COUNT(DISTINCT from_msisdn)
StatsSenders(r) ==
    /\ req[r].pc = "stats-total"
    /\ Set(r, [req[r] EXCEPT !.pc = "stats-senders",
                             !.stats.senders_count =
                                 Cardinality(SendersOf(messages)),
                             !.n_last = Len(messages)])
    /\ UNCHANGED <<messages, now, obs, started, inserted, settings>>

\* GROUP BY from_msisdn ORDER BY count DESC LIMIT 10
StatsPerSender(r) ==
    /\ req[r].pc = "stats-senders"
    /\ \E result \in PerSenderResults(messages) :
           Set(r, [req[r] EXCEPT !.pc = "stats-per-sender",
                                 !.stats.messages_per_sender = result,
                                 !.n_last = Len(messages)])
    /\ UNCHANGED <<messages, now, obs, started, inserted, settings>>

\* MIN(ts)
StatsFirst(r) ==
    /\ req[r].pc = "stats-per-sender"
    /\ Set(r, [req[r] EXCEPT !.pc = "stats-first",
                             !.stats.first_message_ts = MinTs(messages),
                             !.n_last = Len(messages)])
    /\ UNCHANGED <<messages, now, obs, started, inserted, settings>>

\* MAX(ts), and the response
StatsLast(r) ==
    /\ req[r].pc = "stats-first"
    /\ Set(r, [req[r] EXCEPT !.pc = "responded", !.status = 200,
                             !.stats.last_message_ts = MaxTs(messages),
                             !.n_last = Len(messages)])
    /\ UNCHANGED <<messages, now, obs, started, inserted, settings>>

\* ------------------- app/main.py: GET /health/live, /health/ready, /metrics

\* check_db_ready: "SELECT 1" on a new connection.
check_db_ready == TRUE

Liveness(r) ==
    /\ Free(r)
    /\ Begin
    /\ Set(r, [Idle EXCEPT !.path = "/health/live", !.pc = "responded",
                           !.status = 200])
    /\ UNCHANGED <<messages, now, obs, inserted, settings>>

Readiness(r) ==
    /\ Free(r)
    /\ Begin
    /\ Set(r, [Idle EXCEPT !.path = "/health/ready", !.pc = "responded",
                           !.calls = <<"check_db_ready">>,
                           !.status = IF /\ settings.WEBHOOK_SECRET # ""
                                         /\ check_db_ready
                                      THEN 200 ELSE 503])
    /\ UNCHANGED <<messages, now, obs, inserted, settings>>

Metrics(r) ==
    /\ Free(r)
    /\ Begin
    /\ Set(r, [Idle EXCEPT !.path = "/metrics", !.pc = "responded",
                           !.calls = <<"get_metrics">>, !.status = 200])
    /\ UNCHANGED <<messages, now, obs, inserted, settings>>

\* ------------------------------------------------------ the specification

Next ==
    \E r \in Req :
        \/ \E in \in WebhookInputs : Webhook(r, in)
        \/ InsertExecute(r)
        \/ InsertCommit(r)
        \/ InsertFault(r)
        \/ LogRequests(r)
        \/ Unhandled(r)
        \/ \E query \in ListInputs : ListCount(r, query)
        \/ ListPage(r)
        \/ StatsTotal(r)
        \/ StatsSenders(r)
        \/ StatsPerSender(r)
        \/ StatsFirst(r)
        \/ StatsLast(r)
        \/ Liveness(r)
        \/ Readiness(r)
        \/ Metrics(r)

Spec == Init /\ [][Next]_vars

\* A handler that was called runs on: an insert that is ready to run or to
\* commit does so or fails (a writer that finds the database locked gives
\* up with sqlite3.OperationalError when the busy timeout has passed), and
\* a response is passed on through the middleware.
Fairness ==
    \A r \in Req :
        /\ WF_vars(InsertExecute(r) \/ InsertFault(r))
        /\ WF_vars(InsertCommit(r) \/ InsertFault(r))
        /\ WF_vars(LogRequests(r))
        /\ WF_vars(Unhandled(r))

FairSpec == Init /\ [][Next]_vars /\ Fairness

\* The ingestion pipeline alone, one request at a time on worker 1, under
\* each configured secret and with the requests of PipelineInputs.
InitPipeline ==
    /\ messages = <<>>
    /\ req = [r \in Req |-> Idle]
    /\ now = 0
    /\ webhook_requests_total = [l \in Results |-> 0]
    /\ http_requests_total = [k \in Paths \X Statuses |-> 0]
    /\ request_latency_ms = 0
    /\ log = [info |-> 0, error |-> 0]
    /\ started = 0
    /\ settings \in {[WEBHOOK_SECRET |-> k] : k \in Secrets}
    /\ inserted = [m \in MessageIds |-> [created |-> 0, duplicate |-> 0,
                                         first |-> NoBody]]

NextPipeline ==
    \/ \E in \in PipelineInputs(settings.WEBHOOK_SECRET) : Webhook(1, in)
    \/ \E r \in Req :
           \/ InsertExecute(r)
           \/ InsertCommit(r)
           \/ InsertFault(r)
           \/ LogRequests(r)
           \/ Unhandled(r)

SpecPipeline == InitPipeline /\ [][NextPipeline]_vars


\* A store with many senders, as earlier runs of the service left it in
\* the database file: senders "+1" to "+n", a sender with a lower number
\* having as many messages or more, two senders to a count.
DigitChar(d) == <<"0", "1", "2", "3", "4", "5", "6", "7", "8", "9">>[d + 1]

\* str(n) of a natural number
RECURSIVE Decimal(_)
Decimal(n) ==
    IF n < 10 THEN <<DigitChar(n)>>
    ELSE Decimal(n \div 10) \o <<DigitChar(n % 10)>>

\* One more sender than the top list of get_stats takes.
ManySenders == TopSenders + 1

MessagesOf(s) == 1 + (ManySenders - s) \div 2

RECURSIVE FilledStore(_)
FilledStore(n) ==
    IF n = 0 THEN <<>>
    ELSE LET before == FilledStore(n - 1)
             first == Len(before)
         IN  before \o
             [j \in 1..MessagesOf(n) |->
                 Row(<<"m">> \o Decimal(first + j), <<"+">> \o Decimal(n),
                     Receiver, T1000, None, first + j)]

StatsStores == {FilledStore(n) : n \in {0, 2, TopSenders, ManySenders}}

\* GET /stats alone, on a store that is already filled when the service
\* starts: init_db keeps the table of the database file, the counters and
\* the log start anew.
InitStats ==
    /\ messages \in StatsStores
    /\ req = [r \in Req |-> Idle]
    /\ now = Len(messages)
    /\ webhook_requests_total = [l \in Results |-> 0]
    /\ http_requests_total = [k \in Paths \X Statuses |-> 0]
    /\ request_latency_ms = 0
    /\ log = [info |-> 0, error |-> 0]
    /\ started = 0
    /\ settings = [WEBHOOK_SECRET |-> WEBHOOK_SECRET]
    /\ inserted = [m \in MessageIds |-> [created |-> 0, duplicate |-> 0,
                                         first |-> NoBody]]

NextStats ==
    \E r \in Req :
        \/ StatsTotal(r)
        \/ StatsSenders(r)
        \/ StatsPerSender(r)
        \/ StatsFirst(r)
        \/ StatsLast(r)
        \/ LogRequests(r)

SpecStats == InitStats /\ [][NextStats]_vars


\* ------------------------------------------------------------ the claims

\* The committed rows with message_id m.
RowsWith(table, m) == {i \in 1..Len(table) : table[i].message_id = m}

\* Worker r holds a POST /webhook request that has its response.
WebhookResponded(r) == req[r].path = "/webhook" /\ req[r].pc = "responded"

\* The request of worker r carries the HMAC of its body under the secret.
Signed(r) ==
    req[r].signature = HmacSha256Hex(settings.WEBHOOK_SECRET, req[r].body)

\* C1: of the insert calls for one message_id that have returned, in any
\* interleaving, exactly one returned created=true and every other one
\* created=false, and the store holds exactly one row for that message_id
\* (and none before the first call returned).
C1_AtomicInsert ==
    \A m \in MessageIds :
        /\ inserted[m].created <= 1
        /\ inserted[m].duplicate > 0 => inserted[m].created = 1
        /\ Cardinality(RowsWith(messages, m)) = inserted[m].created

\* Two workers held requests for one message_id with different bodies, the
\* second about to insert while the first one's transaction was open; the
\* first was told created, the second duplicate.
C1_Witness ==
    \E r1, r2 \in Req :
        /\ WebhookResponded(r1) /\ WebhookResponded(r2)
        /\ req[r1].body.message_id = req[r2].body.message_id
        /\ req[r1].body # req[r2].body
        /\ req[r1].result = "created" /\ req[r2].result = "duplicate"
        /\ req[r2].waited

\* C2: a correctly signed, valid POST /webhook is answered 200, also when
\* its message_id is already stored with other field values, unless the
\* storage faults (sqlite3.OperationalError); when it is answered 200 the
\* store holds exactly one row for its message_id.
C2_DuplicateIsOk ==
    \A r \in Req :
        WebhookResponded(r) /\ Signed(r) /\ req[r].body \in ValidBodies =>
            /\ req[r].status = 200 \/ req[r].raised = "OperationalError"
            /\ req[r].status = 200 =>
                 /\ req[r].detail = "ok"
                 /\ Cardinality(RowsWith(messages, req[r].body.message_id)) = 1


\* A duplicate with other field values than the stored row was answered 200.
C2_Witness ==
    \E r \in Req :
        /\ WebhookResponded(r) /\ Signed(r)
        /\ req[r].status = 200 /\ req[r].dup
        /\ \E i \in 1..Len(messages) :
               /\ messages[i].message_id = req[r].body.message_id
               /\ messages[i].from_msisdn # req[r].body.from

\* C3: a committed row is never changed and never removed: every step
\* leaves each row of the table as it was, created_at included.
C3_RowsImmutable ==
    [][\A i \in 1..Len(messages) :
           i <= Len(messages') /\ messages'[i] = messages[i]]_vars

\* A duplicate with another ts and text than the stored row has returned
\* from insert_message, later on the clock than the row's created_at.
C3_Witness ==
    \E r \in Req, i \in 1..Len(messages) :
        /\ WebhookResponded(r) /\ req[r].result = "duplicate"
        /\ messages[i].message_id = req[r].body.message_id
        /\ messages[i].ts # req[r].body.ts
        /\ messages[i].text # req[r].body.text
        /\ messages[i].created_at < now - 1


\* C4: a POST /webhook whose X-Signature is missing or does not verify
\* against the raw body ends with 401, and neither validation nor
\* insert_message is performed for it.
C4_BadSignatureIs401 ==
    \A r \in Req :
        WebhookResponded(r) /\ ~Signed(r) =>
            /\ req[r].status = 401
            /\ req[r].calls = <<"verify_signature">>

\* A string of ASCII digits after one '+': the spec's E.164 rule.
PlusDigits(v) ==
    /\ v # None
    /\ Len(v) >= 2
    /\ v[1] = "+"
    /\ \A i \in 2..Len(v) : v[i] \in Digits

\* The payload breaks one of the validator's rules: no or an empty
\* message_id, a from or to that is not '+' and digits, a ts that does not
\* end with Z, a text of more than 4096 characters.
BreaksRule(b) ==
    \/ b.message_id = None \/ b.message_id = <<>>
    \/ ~PlusDigits(b.from)
    \/ ~PlusDigits(b.to)
    \/ b.ts = None \/ b.ts = <<>> \/ b.ts[Len(b.ts)] # "Z"
    \/ b.text # None /\ Len(b.text) > 4096

\* C5: a correctly signed POST /webhook whose payload breaks a validation
\* rule ends with 422 without a call of insert_message; no request with
\* such a payload is ever at or in insert_message, and no stored row has
\* such values.
C5_InvalidIs422 ==
    /\ \A r \in Req :
           req[r].path = "/webhook" /\ Signed(r) /\ BreaksRule(req[r].body) =>
               /\ req[r].pc = "responded"
               /\ req[r].status = 422
               /\ req[r].calls = <<"verify_signature", "model_validate_json">>
    /\ \A i \in 1..Len(messages) :
           ~BreaksRule(Payload(messages[i].message_id, messages[i].from_msisdn,
                               messages[i].to_msisdn, messages[i].ts,
                               messages[i].text))

\* A signed payload without the Z was answered 422 while the store holds a
\* row: the row is still the only one.
C5_Witness ==
    \E r \in Req :
        /\ WebhookResponded(r) /\ Signed(r)
        /\ req[r].body = BodyNoZ
        /\ req[r].status = 422
        /\ Len(messages) = 1


\* Worker r holds a GET /messages request answered 200.
ListResponded(r) ==
    req[r].path = "/messages" /\ req[r].pc = "responded" /\ req[r].status = 200

\* The table as the latest query of worker r's read saw it.
Seen(r) == SubSeq(messages, 1, req[r].n_last)

\* q occurs in t as a substring, ASCII case ignored.
ContainsFold(t, q) ==
    \E i \in 1..(Len(t) - Len(q) + 1) :
        \A j \in 1..Len(q) : Lower(t[i + j - 1]) = Lower(q[j])

\* The filters of p cover the row: each filter that is supplied holds.
Covers(p, row) ==
    /\ p.from_filter # None => row.from_msisdn = p.from_filter
    /\ p.since # None => StrLeq(p.since, row.ts)
    /\ p.q # None => row.text # None /\ ContainsFold(row.text, p.q)

\* Row a comes before row b in (ts, message_id) order.
Before(a, b) ==
    \/ StrLess(a.ts, b.ts)
    \/ a.ts = b.ts /\ StrLess(a.message_id, b.message_id)

\* Row i of table T is covered by the filters of p and lies in its window:
\* at least offset and fewer than offset + limit covered rows come before it.
InWindow(T, p, i) ==
    LET rank == Cardinality({j \in 1..Len(T) :
                                Covers(p, T[j]) /\ Before(T[j], T[i])})
    IN  /\ Covers(p, T[i])
        /\ p.offset <= rank
        /\ rank < p.offset + p.limit

\* C6: a GET /messages that starts after message_id m was answered 200 and
\* whose filters and window cover m returns exactly one entry for m, with
\* the from, to, ts and text of the request that created m.
C6_ListShowsFirstAccepted ==
    \A r \in Req :
        ListResponded(r) =>
            \A i \in 1..req[r].n_first :
                InWindow(Seen(r), req[r].params, i) =>
                    LET m == messages[i].message_id
                        first == inserted[m].first
                        hits == {k \in 1..Len(req[r].data) :
                                    req[r].data[k].message_id = m}
                    IN  /\ Cardinality(hits) = 1
                        /\ \A k \in hits :
                               /\ req[r].data[k].from = first.from
                               /\ req[r].data[k].to = first.to
                               /\ req[r].data[k].ts = first.ts
                               /\ req[r].data[k].text = first.text

\* After BodyB (no text) created m1 and BodyA was answered as a duplicate,
\* a list returns m1 with BodyB's sender and a null text.
C6_Witness ==
    \E r \in Req :
        /\ ListResponded(r)
        /\ inserted[M1].duplicate = 1
        /\ inserted[M1].first = BodyB
        /\ Len(req[r].data) = 1
        /\ req[r].data[1].message_id = M1
        /\ req[r].data[1].from = Sender2
        /\ req[r].data[1].text = None

\* Entry a may stand right before entry b: (ts, message_id) of a is at most
\* that of b.
PairOrdered(a, b) ==
    \/ StrLess(a.ts, b.ts)
    \/ a.ts = b.ts /\ StrLeq(a.message_id, b.message_id)

Ordered(data) ==
    \A k \in 1..(Len(data) - 1) : PairOrdered(data[k], data[k + 1])

\* Filters, limits and offsets in every combination, for the page query on
\* the committed table.
SweepInputs ==
    {Params(l, o, f, s, q) :
        l \in {2, 3}, o \in {0, 1}, f \in {None, Sender1, Sender2},
        s \in {None, T0900, T1000}, q \in {None, <<"h">>}}

\* C7: the data of every GET /messages response, and the page of the
\* committed table under every combination of filters, limit and offset, is
\* in ascending order of ts, ties in ascending order of message_id.
C7_Ordered ==
    /\ \A r \in Req : ListResponded(r) => Ordered(req[r].data)
    /\ \A p \in SweepInputs : Ordered(PageQuery(messages, p))

\* A list returned two entries of one ts that were inserted in the other
\* order.
C7_Witness ==
    \E r \in Req :
        /\ ListResponded(r)
        /\ Len(req[r].data) = 2
        /\ req[r].data[1].ts = req[r].data[2].ts
        /\ messages[1].message_id = req[r].data[2].message_id
        /\ messages[2].message_id = req[r].data[1].message_id

\* C8: when no insert commits between the queries of a GET /messages, its
\* data holds only messages with from = X and ts >= T for the filters X and
\* T supplied, and, without a text query, its total is the number of all
\* stored messages the filters cover, whatever limit and offset are.
C8_FiltersAndTotal ==
    \A r \in Req :
        ListResponded(r) /\ req[r].n_first = req[r].n_last =>
            LET p == req[r].params
                T == Seen(r)
            IN  /\ \A k \in 1..Len(req[r].data) :
                       /\ p.from_filter # None =>
                              req[r].data[k].from = p.from_filter
                       /\ p.since # None => StrLeq(p.since, req[r].data[k].ts)
                /\ p.q = None =>
                       req[r].total =
                           Cardinality({i \in 1..Len(T) : Covers(p, T[i])})

\* Under from and since together a list of limit 1 returned one of two
\* covered messages, one of them with ts equal to since.
C8_Witness ==
    \E r \in Req :
        /\ ListResponded(r) /\ req[r].n_first = req[r].n_last
        /\ req[r].params.from_filter = Sender1
        /\ req[r].params.since = T1000
        /\ req[r].total = 2
        /\ Len(req[r].data) = 1
        /\ req[r].data[1].ts = T1000

\* C9: every GET /messages response has len(data) <= total and
\* len(data) <= limit.
C9_PageWithinTotal ==
    \A r \in Req :
        ListResponded(r) =>
            /\ Len(req[r].data) <= req[r].total
            /\ Len(req[r].data) <= req[r].params.limit

RECURSIVE SumCounts(_)
SumCounts(entries) ==
    IF entries = <<>> THEN 0
    ELSE Head(entries).count + SumCounts(Tail(entries))

\* C10: when no insert commits between the queries of a GET /stats,
\* total_messages is the number of stored rows and the total of an
\* unfiltered list, senders_count the number of distinct from values, the
\* messages_per_sender counts sum to at most total_messages, and
\* first_message_ts and last_message_ts are null on an empty store and else
\* the least and the greatest stored ts.
C10_StatsConsistent ==
    \A r \in Req :
        /\ req[r].path = "/stats" /\ req[r].pc = "responded"
        /\ req[r].n_first = req[r].n_last
        => LET T == Seen(r)
               st == req[r].stats
               ts == {T[i].ts : i \in 1..Len(T)}
           IN  /\ st.total_messages = Len(T)
               /\ st.total_messages = CountQuery(T, NoParams)
               /\ st.senders_count =
                      Cardinality({T[i].from_msisdn : i \in 1..Len(T)})
               /\ SumCounts(st.messages_per_sender) <= st.total_messages
               /\ st.total_messages = 0 =>
                      /\ st.first_message_ts = None
                      /\ st.last_message_ts = None
               /\ st.total_messages > 0 =>
                      /\ st.first_message_ts \in ts
                      /\ st.last_message_ts \in ts
                      /\ \A t \in ts : /\ StrLeq(st.first_message_ts, t)
                                       /\ StrLeq(t, st.last_message_ts)
                      /\ StrLeq(st.first_message_ts, st.last_message_ts)

\* Stats of a store of two messages of two senders, the later ts inserted
\* first.
C10_Witness ==
    \E r \in Req :
        /\ req[r].path = "/stats" /\ req[r].pc = "responded"
        /\ req[r].n_first = req[r].n_last
        /\ req[r].stats.total_messages = 2
        /\ req[r].stats.senders_count = 2
        /\ req[r].stats.first_message_ts = T0900
        /\ req[r].stats.last_message_ts = T1000
        /\ messages[1].ts = T1000

\* C11: every GET /stats response, also one whose queries ran while
\* inserts committed, has senders_count <= total_messages, the
\* messages_per_sender counts summing to at most total_messages,
\* senders_count > 0 when total_messages > 0, and first_message_ts and
\* last_message_ts null when total_messages = 0.
C11_StatsAlwaysConsistent ==
    \A r \in Req :
        req[r].path = "/stats" /\ req[r].pc = "responded" =>
            LET st == req[r].stats
            IN  /\ st.senders_count <= st.total_messages
                /\ SumCounts(st.messages_per_sender) <= st.total_messages
                /\ st.total_messages > 0 => st.senders_count > 0
                /\ st.total_messages = 0 =>
                       /\ st.first_message_ts = None
                       /\ st.last_message_ts = None

\* The calls of function f among calls.
CallsOf(calls, f) == Cardinality({i \in 1..Len(calls) : calls[i] = f})

\* C12: a webhook request is answered as a duplicate only when a row with
\* its message_id is stored; a request whose insert met another storage
\* fault is answered 500, with one call of insert_message and no more, and
\* is reported neither as a duplicate nor as a success.
C12_FaultIsFatal ==
    \A r \in Req :
        req[r].path = "/webhook" /\ req[r].pc = "responded" =>
            /\ req[r].result = "duplicate" =>
                   /\ req[r].status = 200
                   /\ RowsWith(messages, req[r].body.message_id) # {}
            /\ req[r].raised = "OperationalError" =>
                   /\ req[r].status = 500
                   /\ req[r].result = ""
                   /\ ~req[r].dup
                   /\ req[r].detail # "ok"
                   /\ CallsOf(req[r].calls, "insert_message") = 1

\* An insert failed for a message_id that is not stored: answered 500.
C12_Witness ==
    \E r \in Req :
        /\ req[r].path = "/webhook" /\ req[r].pc = "responded"
        /\ req[r].raised = "OperationalError"
        /\ req[r].status = 500
        /\ RowsWith(messages, req[r].body.message_id) = {}

\* The label of the outcome of a webhook request q that was answered.
OutcomeOf(q) ==
    CASE q.status = 401 -> "invalid_signature"
      [] q.status = 422 -> "validation_error"
      [] q.status = 200 /\ q.dup -> "duplicate"
      [] q.status = 200 /\ ~q.dup -> "created"
      [] OTHER -> "none"

\* In this step worker r's webhook request gets its answer.
Answered(r) ==
    /\ req[r].pc # "responded"
    /\ req'[r].pc = "responded" /\ req'[r].path = "/webhook"

\* In this step worker r's request, which has its answer, is over.
Left(r) == req[r].pc = "responded" /\ req'[r].pc = "idle"

\* C13: the webhook outcome counter is incremented exactly in the step in
\* which a POST /webhook request gets its answer, once, under the label of
\* that answer: invalid_signature for 401, validation_error for 422, created
\* when the step stored the request's row, duplicate when the message_id
\* was stored before; and the request's end makes one latency observation.
C13_OneIncrementPerWebhook ==
    [][/\ \A r \in Req :
              Answered(r) =>
                  LET label == OutcomeOf(req'[r])
                      m == req'[r].body.message_id
                  IN  /\ label \in Results
                      /\ webhook_requests_total' =
                             Count(webhook_requests_total, label)
                      /\ label = "created" <=>
                             /\ Len(messages') = Len(messages) + 1
                             /\ messages'[Len(messages')].message_id = m
                      /\ label = "duplicate" => RowsWith(messages, m) # {}
       /\ (\A r \in Req : ~Answered(r)) =>
              webhook_requests_total' = webhook_requests_total
       /\ \A r \in Req :
              Left(r) /\ req[r].path = "/webhook" =>
                  request_latency_ms' = request_latency_ms + 1]_vars

\* C14: the end of every request that has its answer, the 500 of a storage
\* fault included, writes the request's log line and increments the request
\* counter under the request's path and status.
C14_EveryOutcomeObserved ==
    [][\A r \in Req :
           Left(r) =>
               /\ log'["info"] = log["info"] + 1
               /\ http_requests_total' =
                      Count(http_requests_total,
                            <<req[r].path, req[r].status>>)]_vars

\* Bodies a and b have the same length and differ in one byte: the one
\* whitespace character of their forms, or one character of message_id.
OneByteApart(a, b) ==
    \/ /\ {a.form, b.form} = {"space", "tab"}
       /\ Written(a, "compact") = Written(b, "compact")
    \/ /\ a.message_id # None /\ b.message_id # None
       /\ [a EXCEPT !.message_id = b.message_id] = b
       /\ Len(a.message_id) = Len(b.message_id)
       /\ Cardinality({i \in 1..Len(a.message_id) :
                          a.message_id[i] # b.message_id[i]}) = 1

\* C15: under every configured secret S, a request whose X-Signature is the
\* hex digest of its body B under S passes verification, whether or not B is
\* JSON, and a request whose X-Signature is the digest under S of a body
\* one byte apart from B is answered 401; verification is the first thing
\* done, before the body is parsed.
C15_SignatureCorrect ==
    \A r \in Req :
        req[r].path = "/webhook" =>
            LET B == req[r].body
                S == settings.WEBHOOK_SECRET
            IN  /\ Head(req[r].calls) = "verify_signature"
                /\ req[r].signature = HmacSha256Hex(S, B) =>
                       /\ Len(req[r].calls) >= 2
                       /\ req[r].calls[2] = "model_validate_json"
                       /\ req[r].status # 401
                /\ \A B0 \in SignedBodies :
                       /\ OneByteApart(B0, B)
                       /\ req[r].signature = HmacSha256Hex(S, B0)
                       => /\ req[r].status = 401
                          /\ req[r].calls = <<"verify_signature">>

\* Under the second secret a body written with a tab, which encodes the
\* same message as the body written with a space, was sent with the
\* digest of the latter and answered 401.
C15_Witness ==
    \E r \in Req :
        /\ settings.WEBHOOK_SECRET = OtherSecret
        /\ req[r].path = "/webhook" /\ req[r].pc = "responded"
        /\ req[r].body = Written(BodyA, "tab")
        /\ req[r].signature =
               HmacSha256Hex(OtherSecret, Written(BodyA, "space"))
        /\ req[r].status = 401

\* C16: a request with an X-Signature that is empty, not hexadecimal, of
\* the wrong length or not ASCII is answered 401, and no exception leaves
\* the handler.
C16_VerifyTotal ==
    \A r \in Req :
        /\ req[r].path = "/webhook" /\ req[r].pc = "responded"
        /\ req[r].signature.kind \in {"empty", "ascii", "shorthex", "nonascii"}
        => /\ req[r].status = 401
           /\ req[r].raised = ""

\* The number two decimal digits write.
TwoDigits(a, b) == (Ord(a) - 48) * 10 + (Ord(b) - 48)

\* ts is written YYYY-MM-DDTHH:MM:SSZ with a month, day, hour, minute and
\* second in range.
DateTimeZ(ts) ==
    /\ ts # None
    /\ Len(ts) = 20
    /\ \A i \in {1, 2, 3, 4, 6, 7, 9, 10, 12, 13, 15, 16, 18, 19} :
           ts[i] \in Digits
    /\ ts[5] = "-" /\ ts[8] = "-" /\ ts[11] = "T"
    /\ ts[14] = ":" /\ ts[17] = ":" /\ ts[20] = "Z"
    /\ TwoDigits(ts[6], ts[7]) \in 1..12
    /\ TwoDigits(ts[9], ts[10]) \in 1..31
    /\ TwoDigits(ts[12], ts[13]) \in 0..23
    /\ TwoDigits(ts[15], ts[16]) \in 0..59
    /\ TwoDigits(ts[18], ts[19]) \in 0..59

\* The payload the spec accepts: JSON with a message_id of at least one
\* character, from and to one '+' and ASCII digits, a ts that is a date-time
\* ending with Z, and a text that is absent or at most 4096 characters
\* long; unknown keys do not matter.
Acceptable(b) ==
    /\ b.form \in {"compact", "space", "tab"}
    /\ b.message_id # None /\ Len(b.message_id) >= 1
    /\ PlusDigits(b.from)
    /\ PlusDigits(b.to)
    /\ DateTimeZ(b.ts)
    /\ b.text = None \/ Len(b.text) <= 4096

\* The request of worker r was answered 422.
Rejected(r) == req[r].pc = "responded" /\ req[r].status = 422

\* C17: a correctly signed POST /webhook is answered 422 exactly when its
\* payload is not acceptable, and 200 otherwise unless the insert met a
\* storage fault.
C17_AcceptedIffValid ==
    \A r \in Req :
        req[r].path = "/webhook" /\ Signed(r) =>
            /\ Rejected(r) <=> ~Acceptable(req[r].body)
            /\ req[r].pc = "responded" /\ req[r].raised = "" /\ ~Rejected(r)
                   => req[r].status = 200

\* C18: a correctly signed POST /webhook whose other fields are those of an
\* accepted message is answered 422 exactly when from or to is not one '+'
\* followed by one or more ASCII digits and nothing else.
C18_E164Exact ==
    \A r \in Req :
        /\ req[r].path = "/webhook" /\ Signed(r)
        /\ [req[r].body EXCEPT !.from = Sender1, !.to = Receiver] = BodyA
        => (Rejected(r) <=>
                ~(PlusDigits(req[r].body.from) /\ PlusDigits(req[r].body.to)))

\* C19: a GET /messages whose limit, 50 when not given, is outside 1..100
\* or whose offset, 0 when not given, is negative is answered 422 without a
\* call of get_messages; every other one is answered 200 with the limit
\* and offset used in the response and at most limit entries.
C19_PaginationBounds ==
    \A r \in Req :
        req[r].path = "/messages" =>
            LET query == req[r].query
                limit == IF "limit" \in DOMAIN query THEN query.limit ELSE 50
                offset == IF "offset" \in DOMAIN query THEN query.offset
                          ELSE 0
            IN  IF limit < 1 \/ limit > 100 \/ offset < 0
                THEN /\ req[r].pc = "responded"
                     /\ req[r].status = 422
                     /\ req[r].calls = <<>>
                ELSE /\ req[r].calls = <<"get_messages">>
                     /\ req[r].pc = "responded" =>
                            /\ req[r].status = 200
                            /\ req[r].limit = limit
                            /\ req[r].offset = offset
                            /\ Len(req[r].data) <= limit

\* A request without limit and offset was answered with limit 50 and
\* offset 0 and both stored messages.
C19_Witness ==
    \E r \in Req :
        /\ ListResponded(r)
        /\ req[r].query = NoLimitNoOffset
        /\ req[r].limit = 50 /\ req[r].offset = 0
        /\ Len(req[r].data) = 2

\* C20: when no insert commits between the queries of a GET /messages with
\* a text query q, every entry of data has a text that is not null and
\* holds q as a substring, character for character without regard to ASCII
\* case, and total is the number of stored messages with such a text that
\* the other filters cover.
C20_LiteralSearch ==
    \A r \in Req :
        /\ ListResponded(r) /\ req[r].n_first = req[r].n_last
        /\ req[r].params.q # None
        => LET p == req[r].params
               T == Seen(r)
           IN  /\ \A k \in 1..Len(req[r].data) :
                      /\ req[r].data[k].text # None
                      /\ ContainsFold(req[r].data[k].text, p.q)
               /\ req[r].total =
                      Cardinality({i \in 1..Len(T) : Covers(p, T[i])})

\* The instant a ts of the forms "YYYY-MM-DD?HH:MM:SSZ" denotes, as seconds
\* from the year 2000 on a scale that grows with the calendar.
Instant(ts) ==
    LET num(i, j) == DigitsValue(SubSeq(ts, i, j))
    IN  (((((num(1, 4) - 2000) * 12 + num(6, 7)) * 31 + num(9, 10)) * 24
            + num(12, 13)) * 60 + num(15, 16)) * 60 + num(18, 19)

\* C21: the ts of two stored messages compare as strings the way their
\* instants compare, and the data of a GET /messages answered with no insert
\* in between is in the order of the instants, a since bound leaving out
\* exactly the messages of an earlier instant.
C21_StringOrderIsChronological ==
    /\ \A i, j \in 1..Len(messages) :
           StrLess(messages[i].ts, messages[j].ts)
               <=> Instant(messages[i].ts) < Instant(messages[j].ts)
    /\ \A r \in Req :
           ListResponded(r) /\ req[r].n_first = req[r].n_last =>
               /\ \A k \in 1..(Len(req[r].data) - 1) :
                      Instant(req[r].data[k].ts)
                          <= Instant(req[r].data[k + 1].ts)
               /\ req[r].params.since # None /\ req[r].params.since # <<>> =>
                      \A k \in 1..Len(req[r].data) :
                          Instant(req[r].data[k].ts)
                              >= Instant(req[r].params.since)

\* The messages_per_sender of a GET /stats request once its per-sender
\* query has run.
PerSenderOf(r) == req[r].stats.messages_per_sender

HasPerSender(r) ==
    /\ req[r].path = "/stats"
    /\ req[r].pc \in {"stats-per-sender", "stats-first", "responded"}

\* C22: on a store that does not change, messages_per_sender has at most 10
\* entries, one to a sender, each with the number (1 or more) of stored
\* messages of its sender, in non-increasing order of count, and no sender
\* outside the list has more messages than a sender in it.
C22_TopSenders ==
    \A r \in Req :
        HasPerSender(r) =>
            LET L == PerSenderOf(r)
                n(f) == Cardinality({i \in 1..Len(messages) :
                                        messages[i].from_msisdn = f})
                listed == {L[k].from : k \in 1..Len(L)}
            IN  /\ Len(L) <= 10
                /\ \A k \in 1..Len(L) :
                       L[k].count >= 1 /\ L[k].count = n(L[k].from)
                /\ \A j, k \in 1..Len(L) : j < k =>
                       L[j].from # L[k].from /\ L[j].count >= L[k].count
                /\ \A i \in 1..Len(messages) :
                       messages[i].from_msisdn \notin listed =>
                           \A k \in 1..Len(L) :
                               n(messages[i].from_msisdn) <= L[k].count

\* A GET /stats on the store of 11 senders was answered with ten of them,
\* the last one with a single message as the sender left out has.
C22_Witness ==
    \E r \in Req :
        /\ HasPerSender(r) /\ req[r].pc = "responded"
        /\ Cardinality(SendersOf(messages)) = 11
        /\ Len(PerSenderOf(r)) = 10
        /\ PerSenderOf(r)[10].count = 1
        /\ PerSenderOf(r)[1].count = 6

C24_AllOrNothing ==
    [][/\ \/ messages' = messages
          \/ \E r \in Req :
                 LET b == req[r].body
                 IN  /\ req[r].pc = "inserting"
                     /\ req'[r].result = "created"
                     /\ {b.message_id, b.from, b.to, b.ts} \cap {None} = {}
                     /\ \E t \in 0..now :
                            messages' =
                                Append(messages,
                                       Row(b.message_id, b.from, b.to, b.ts,
                                           b.text, t))
       /\ \A r \in Req :
              req[r].raised = "" /\ req'[r].raised = "OperationalError" =>
                  /\ messages' = messages
                  /\ RowsWith(messages', req'[r].body.message_id)
                         = RowsWith(messages, req[r].body.message_id)
      ]_vars

\* An insert failed with a storage fault after another message had been
\* committed, and no row has its message_id.
C24_Witness ==
    \E r \in Req :
        /\ WebhookResponded(r)
        /\ req[r].raised = "OperationalError"
        /\ req[r].calls[Len(req[r].calls)] = "insert_message"
        /\ Len(messages) >= 1
        /\ RowsWith(messages, req[r].body.message_id) = {}

ReadPaths == {"/messages", "/stats", "/health/live", "/health/ready",
              "/metrics"}

\* C25: a step of a GET /messages, GET /stats, health or metrics request,
\* from its arrival to the end of its middleware, leaves the stored messages
\* as they are, whatever its parameters and whatever the other worker does.
C25_ReadsChangeNothing ==
    [][\A r \in Req :
           /\ req'[r] # req[r]
           /\ req[r].path \in ReadPaths \/ req'[r].path \in ReadPaths
           => messages' = messages]_vars

\* A list and a stats request were answered on a store with a message, one
\* with the message in data and the other with total_messages 1.
C25_Witness ==
    \E r1, r2 \in Req :
        /\ ListResponded(r1) /\ Len(req[r1].data) = 1
        /\ req[r2].path = "/stats" /\ req[r2].pc = "responded"
        /\ req[r2].stats.total_messages = 1
        /\ Len(messages) = 1

\* The calls of a webhook handler, in the order of its stages.
WebhookStages == <<"verify_signature", "model_validate_json", "insert_message">>

Terminal(r) ==
    /\ WebhookResponded(r)
    /\ req[r].status \in {401, 422, 500, 200}

\* C26: the calls of a POST /webhook request are the signature check, then
\* the validation, then the insert, each at most once and none without the
\* one before; the insert is called only for a request whose signature
\* verified and whose message passed validation; the status tells the stage
\* the request ended in and stays as it is once given; and with handlers
\* that run on, every request comes to a response 401, 422, 500 or 200.
C26_StagesInOrder ==
    /\ [](\A r \in Req :
             req[r].path = "/webhook" =>
                 LET n == Len(req[r].calls)
                 IN  /\ n \in 1..3
                     /\ req[r].calls = SubSeq(WebhookStages, 1, n)
                     /\ n = 3 => /\ Signed(r)
                                 /\ WebhookMessageValid(req[r].body)
                     /\ req[r].pc = "validated" => n = 2
                     /\ req[r].pc = "inserting" => n = 3
                     /\ req[r].pc = "responded" =>
                            /\ req[r].status \in {401, 422, 500, 200}
                            /\ req[r].status = 401 => n = 1
                            /\ req[r].status = 422 => n = 2
                            /\ req[r].status = 200 => n = 3)
    /\ [][\A r \in Req :
              req[r].path = "/webhook" =>
                  \/ /\ req[r].pc = "responded"
                     /\ req'[r] \in {req[r], Idle}
                  \/ /\ req[r].pc # "responded"
                     /\ req'[r].path = "/webhook"
                     /\ Len(req'[r].calls) >= Len(req[r].calls)]_vars
    /\ \A r \in Req : (req[r].path = "/webhook") ~> Terminal(r)

\* A request went through all stages and was answered 200 as created.
C26_Witness ==
    \E r \in Req :
        /\ Terminal(r)
        /\ req[r].calls = WebhookStages
        /\ req[r].status = 200 /\ req[r].result = "created"

\* C27: when no insert commits between the queries of a GET /messages that
\* has a from parameter, the empty one too, every entry of data has that
\* value as its from, and total is the number of stored messages with that
\* from which the other filters cover.
C27_FromFilterKept ==
    \A r \in Req :
        /\ ListResponded(r) /\ req[r].n_first = req[r].n_last
        /\ req[r].params.from_filter # None
        /\ req[r].params.q = None
        => LET p == req[r].params
               T == Seen(r)
           IN  /\ \A k \in 1..Len(req[r].data) :
                      req[r].data[k].from = p.from_filter
               /\ req[r].total =
                      Cardinality({i \in 1..Len(T) :
                          /\ T[i].from_msisdn = p.from_filter
                          /\ p.since # None => StrLeq(p.since, T[i].ts)})

\* Filters whose meaning the list and the specification agree on, and the
\* two kinds they do not (an empty from, a wildcard in q).
PlainFilters ==
    {[from_filter |-> f, since |-> s, q |-> q] :
        f \in {None, Sender1}, s \in {None, T1000}, q \in {None, <<"h">>}}

OtherFilters ==
    {[from_filter |-> <<>>, since |-> None, q |-> None],
     [from_filter |-> None, since |-> None, q |-> <<"%">>]}

PageLimits == {1, 2}

\* Page k (from 0) of the committed table under filters f and limit l.
PageAt(f, l, k) ==
    PageQuery(messages, Params(l, k * l, f.from_filter, f.since, f.q))

\* The number of rows the filters cover that come before row i.
RankOf(f, i) ==
    Cardinality({j \in 1..Len(messages) :
                    Covers(f, messages[j]) /\ Before(messages[j], messages[i])})

\* No request is in flight: the store is what the finished requests left.
Quiet == \A r \in Req : req[r].pc = "idle"

\* C28: on a store at rest, for fixed filters and limit L, the page at
\* offset k * L holds at its position j the covered message with exactly
\* k * L + j - 1 covered messages before it in (ts, message_id) order, and
\* every covered message is in the one page and position its rank gives:
\* the pages are disjoint and in sequence are all covered messages once,
\* in order.  A page at an offset of total or more is empty, and the count
\* query gives the same total at every offset.  Under an empty from or a
\* wildcard q, where the list covers other messages, the pages again hold
\* total entries in all and no message twice.
C28_PagesPartition ==
    Quiet =>
    /\ \A f \in PlainFilters, l \in PageLimits :
           LET covered == {i \in 1..Len(messages) : Covers(f, messages[i])}
               total == Cardinality(covered)
               rank == [i \in 1..Len(messages) |-> RankOf(f, i)]
               page == [k \in 0..(Len(messages) + 1) |-> PageAt(f, l, k)]
           IN  /\ \A i \in covered :
                      LET k == rank[i] \div l
                          j == (rank[i] % l) + 1
                      IN  /\ Len(page[k]) >= j
                          /\ page[k][j].message_id = messages[i].message_id
               /\ \A k \in DOMAIN page :
                      /\ \A j \in 1..Len(page[k]) :
                             \E i \in covered :
                                 /\ page[k][j] = Project(messages[i])
                                 /\ rank[i] = k * l + j - 1
                      /\ k * l >= total => page[k] = <<>>
                      /\ CountQuery(messages,
                                    Params(l, k * l, f.from_filter, f.since,
                                           f.q)) = total
    /\ \A f \in OtherFilters, l \in PageLimits :
           LET total == CountQuery(messages,
                                   Params(l, 0, f.from_filter, f.since, f.q))
               page == [k \in 0..(Len(messages) + 1) |-> PageAt(f, l, k)]
               at == {<<k, j>> \in (DOMAIN page) \X (1..l) :
                         j <= Len(page[k])}
           IN  /\ Cardinality(at) = total
               /\ \A x, y \in at :
                      x # y => page[x[1]][x[2]].message_id
                                   # page[y[1]][y[2]].message_id
               /\ \A k \in DOMAIN page : k * l >= total => page[k] = <<>>

\* Three messages are stored: under limit 2 the first page holds two of
\* them, the second the third, and the page after is empty.
C28_Witness ==
    LET f == [from_filter |-> None, since |-> None, q |-> None]
    IN  /\ Quiet
        /\ Len(messages) = 3
        /\ Len(PageAt(f, 2, 0)) = 2
        /\ Len(PageAt(f, 2, 1)) = 1
        /\ PageAt(f, 2, 2) = <<>>
        /\ PageAt(f, 2, 1)[1].message_id # messages[3].message_id

\* What an answered webhook request lets its caller see.
ResponseOf(r) == [status |-> req[r].status, detail |-> req[r].detail]

\* C29: a POST /webhook whose signature does not verify is answered 401
\* with detail "invalid signature", whether or not its message_id is stored
\* and whether or not its payload is valid; any two such requests have the
\* same response.
C29_UniformRejection ==
    \A r1, r2 \in Req :
        /\ WebhookResponded(r1) /\ ~Signed(r1)
        /\ WebhookResponded(r2) /\ ~Signed(r2)
        => /\ ResponseOf(r1) = [status |-> 401, detail |-> "invalid signature"]
           /\ ResponseOf(r1) = ResponseOf(r2)

\* The 200 responses POST /webhook has given, by the history of inserts.
Answered200 ==
    LET RECURSIVE Sum(_)
        Sum(S) == IF S = {} THEN 0
                  ELSE LET m == CHOOSE x \in S : TRUE
                       IN  inserted[m].created + inserted[m].duplicate
                               + Sum(S \ {m})
    IN  Sum(MessageIds)

\* C30: when no POST /webhook request is in flight, the number of stored
\* rows is the value of webhook_requests_total{result="created"}, and the
\* number of 200 responses of POST /webhook, which the request counter of
\* the middleware shows too, is the sum of the values for created and
\* duplicate.
C30_CountersMatchStore ==
    (\A r \in Req : req[r].path # "/webhook") =>
        /\ Len(messages) = webhook_requests_total["created"]
        /\ Answered200 = webhook_requests_total["created"]
                             + webhook_requests_total["duplicate"]
        /\ http_requests_total[<<"/webhook", 200>>] = Answered200

\* After two creations and one duplicate no request is in flight.
C30_Witness ==
    /\ \A r \in Req : req[r].path # "/webhook"
    /\ webhook_requests_total["created"] = 2
    /\ webhook_requests_total["duplicate"] = 1
    /\ Len(messages) = 2
    /\ http_requests_total[<<"/webhook", 200>>] = 3

====
